---- MODULE Spec2Model ----
(***************************************************************************)
(* Model of the document pipeline of backend/app/api/v1/documents.py:      *)
(* text extraction, the sliding-window chunker, and the upload / list /    *)
(* delete handlers running as concurrent requests over one PostgreSQL      *)
(* store (READ COMMITTED, one SQLModel session and transaction per         *)
(* request).                                                               *)
(*                                                                         *)
(* Strings are sequences of code points (32 is a space, 97 is "a"); raw    *)
(* file contents are sequences of bytes.                                   *)
(*                                                                         *)
(* Two specifications:                                                     *)
(*   SpecChunker  one call of _chunk_text, run statement by statement      *)
(*   Spec         the HTTP handlers over the store                         *)
(***************************************************************************)
EXTENDS Integers, Sequences, FiniteSets, TLC

VARIABLES
    chunker,          \* the frame of one _chunk_text call
    documents,        \* committed rows of table "documents"
    document_chunks,  \* committed rows of table "document_chunks"
    uuid_counter,     \* number of uuid4() values handed out so far
    requests,         \* the in-flight HTTP requests, one record per slot
    history           \* what completed requests returned (observation only)

vars == <<chunker, documents, document_chunks, uuid_counter, requests, history>>

storeVars == <<documents, document_chunks, uuid_counter, requests, history>>

----------------------------------------------------------------------------
(* Bounds of the model *)

\* longest word sequence handed to the chunker in SpecChunker
MaxLen == 10

\* largest chunk_size / overlap tried in SpecChunker
MaxParam == 4

\* the loop of _chunk_text is cut after this many iterations; with
\* chunk_size > overlap it ends by itself after at most MaxLen iterations
MaxIter == MaxLen + 1

\* number of words of the long uploaded file (two chunks with the defaults)
LongFileWords == 600

\* number of words of the medium uploaded file (less than one window of the
\* default size)
MidFileWords == 500

\* requests accepted in one behaviour
MaxRequests == 2

----------------------------------------------------------------------------
(* Strings *)

Null == "None"

\* the code points str.split() treats as whitespace, below U+00A1
Whitespace == {9, 10, 11, 12, 13, 28, 29, 30, 31, 32, 133, 160}

IsSpace(c) == c \in Whitespace

Min(a, b) == IF a < b THEN a ELSE b

Max(a, b) == IF a > b THEN a ELSE b

\* seq[start:end] of Python: negative indices count from the end, and both
\* are clipped to the sequence
PySlice(seq, start, end) ==
    LET n  == Len(seq)
        lo == IF start < 0 THEN Max(n + start, 0) ELSE Min(start, n)
        hi == IF end < 0 THEN Max(n + end, 0) ELSE Min(end, n)
    IN  IF lo < hi THEN SubSeq(seq, lo + 1, hi) ELSE <<>>

IsWordStart(text, i) ==
    /\ ~IsSpace(text[i])
    /\ (i = 1 \/ IsSpace(text[i - 1]))

IsWordEnd(text, i) ==
    /\ ~IsSpace(text[i])
    /\ (i = Len(text) \/ IsSpace(text[i + 1]))

\* the positions lo..hi of text where a word starts (starts = TRUE) or ends
\* (starts = FALSE), in increasing order
RECURSIVE Positions(_, _, _, _)
Positions(starts, text, lo, hi) ==
    IF lo > hi THEN <<>>
    ELSE IF lo = hi
         THEN (IF (IF starts THEN IsWordStart(text, lo) ELSE IsWordEnd(text, lo))
               THEN <<lo>> ELSE <<>>)
    ELSE LET mid == (lo + hi) \div 2
         IN  Positions(starts, text, lo, mid) \o Positions(starts, text, mid + 1, hi)

\* text.split(): the maximal runs of non-whitespace, in order
Split(text) ==
    LET starts == Positions(TRUE, text, 1, Len(text))
        ends   == Positions(FALSE, text, 1, Len(text))
    IN  [k \in 1..Len(starts) |-> SubSeq(text, starts[k], ends[k])]

\* sep.join(words[lo..hi])
RECURSIVE JoinRange(_, _, _, _)
JoinRange(sep, words, lo, hi) ==
    IF lo > hi THEN <<>>
    ELSE IF lo = hi THEN words[lo]
    ELSE LET mid == (lo + hi) \div 2
         IN  JoinRange(sep, words, lo, mid) \o sep
                 \o JoinRange(sep, words, mid + 1, hi)

Join(sep, words) == JoinRange(sep, words, 1, Len(words))

----------------------------------------------------------------------------
(* _chunk_text *)

DefaultChunkSize == 512

DefaultOverlap == 64

\* while start < len(words)
LoopCondition(words, start) == start < Len(words)

\* chunks.append(" ".join(words[start:end]))
AppendChunk(chunks, words, start, end) ==
    Append(chunks, Join(<<32>>, PySlice(words, start, end)))

\* (variant: the overlap is forgotten and the next window starts at `end`)
NextStartWithoutOverlap(end, overlap) == end

\* start = end - overlap
NextStart(end, overlap) == end - overlap

\* one pass through the body of the while loop
LoopBody(words, chunk_size, overlap, start, chunks) ==
    LET end == start + chunk_size
    IN  [chunks |-> AppendChunk(chunks, words, start, end),
         start  |-> NextStart(end, overlap)]

RECURSIVE ChunkLoop(_, _, _, _, _)
ChunkLoop(words, chunk_size, overlap, start, chunks) ==
    IF LoopCondition(words, start)
    THEN LET b == LoopBody(words, chunk_size, overlap, start, chunks)
         IN  ChunkLoop(words, chunk_size, overlap, b.start, b.chunks)
    ELSE chunks

\* the value _chunk_text returns; defined when chunk_size > overlap
ChunkText(text, chunk_size, overlap) ==
    LET words == Split(text)
    IN  IF words = <<>> THEN <<>>
        ELSE ChunkLoop(words, chunk_size, overlap, 0, <<>>)

(* The texts SpecChunker feeds to _chunk_text: n words in one of three     *)
(* layouts.                                                                *)
\*   1  distinct one-letter words, single spaces          "a b c"
\*   2  distinct two-letter words, newline+space between,
\*      whitespace around                                 " aa\n bb\n cc\t"
\*   3  the same word n times                             "a a a"
Layouts == {1, 2, 3}

SampleWord(i, layout) ==
    CASE layout = 1 -> <<96 + i>>
      [] layout = 2 -> <<96 + i, 96 + i>>
      [] layout = 3 -> <<97>>

SampleText(n, layout) ==
    LET ws == [i \in 1..n |-> SampleWord(i, layout)]
    IN  IF layout = 2
        THEN <<32>> \o Join(<<10, 32>>, ws) \o <<9>>
        ELSE Join(<<32>>, ws)

ChunkerIdle ==
    [pc |-> "idle", text |-> <<>>, chunk_size |-> 0, overlap |-> 0,
     words |-> <<>>, start |-> 0, chunks |-> <<>>]

\* a call _chunk_text(text, chunk_size, overlap) is entered; no request runs
ChunkerInit ==
    /\ \E n \in 0..MaxLen, layout \in Layouts,
          chunk_size \in 1..MaxParam, overlap \in 1..MaxParam :
           chunker = [pc |-> "entry", text |-> SampleText(n, layout),
                      chunk_size |-> chunk_size, overlap |-> overlap,
                      words |-> <<>>, start |-> 0, chunks |-> <<>>]
    /\ documents = {}
    /\ document_chunks = {}
    /\ uuid_counter = 0
    /\ requests = <<>>
    /\ history = <<>>

\* words = text.split(); if not words: return []; chunks = []; start = 0
ChunkSplit ==
    /\ chunker.pc = "entry"
    /\ LET words == Split(chunker.text)
       IN  chunker' = [chunker EXCEPT
                         !.words = words,
                         !.start = 0,
                         !.chunks = <<>>,
                         !.pc = IF words = <<>> THEN "return" ELSE "loop"]
    /\ UNCHANGED storeVars

\* the loop condition holds: one pass through the body
ChunkIterate ==
    /\ chunker.pc = "loop"
    /\ LoopCondition(chunker.words, chunker.start)
    /\ Len(chunker.chunks) < MaxIter
    /\ LET b == LoopBody(chunker.words, chunker.chunk_size, chunker.overlap,
                         chunker.start, chunker.chunks)
       IN  chunker' = [chunker EXCEPT !.start = b.start, !.chunks = b.chunks]
    /\ UNCHANGED storeVars

\* the loop condition fails: return chunks
ChunkReturn ==
    /\ chunker.pc = "loop"
    /\ ~LoopCondition(chunker.words, chunker.start)
    /\ chunker' = [chunker EXCEPT !.pc = "return"]
    /\ UNCHANGED storeVars

ChunkerNext ==
    \/ ChunkSplit
    \/ ChunkIterate
    \/ ChunkReturn

----------------------------------------------------------------------------
SpecChunker == ChunkerInit /\ [][ChunkerNext]_vars

----------------------------------------------------------------------------
(* _extract_text *)

\* raw.decode("utf-8", errors="replace") for bytes that are ASCII or can
\* start no UTF-8 sequence (0xF8..0xFF): each of the latter becomes U+FFFD
Utf8DecodeReplace(raw) ==
    [i \in 1..Len(raw) |-> IF raw[i] < 128 THEN raw[i] ELSE 65533]

\* page.extract_text() or ""
PageText(page) == IF page.is_none THEN <<>> ELSE page.text

\* "\n".join(page.extract_text() or "" for page in reader.pages)
PdfText(pages) == Join(<<10>>, [k \in 1..Len(pages) |-> PageText(pages[k])])

\* file.pdf is what pypdf makes of file.raw: PdfReader raises (valid = FALSE)
\* or yields pages
ExtractText(file, content_type) ==
    IF content_type = "application/pdf"
    THEN IF file.pdf.valid THEN PdfText(file.pdf.pages)
         ELSE Utf8DecodeReplace(file.raw)
    ELSE Utf8DecodeReplace(file.raw)

----------------------------------------------------------------------------
(* The store and the requests *)

Users == {"alice", "bob"}

\* the connections of the server: a request is served on the first free one
Connections == {1, 2}

\* (variant: an absent media type is let through)
AcceptedOrAbsentContentTypes ==
    {"application/pdf", "text/markdown", "text/plain", Null}

AcceptedContentTypes == {"application/pdf", "text/markdown", "text/plain"}

NoPdf == [valid |-> FALSE, pages |-> <<>>]

\* n one-letter words separated by single spaces, as bytes
LongRaw(n) ==
    [j \in 1..(2 * n - 1) |->
        IF j % 2 = 0 THEN 32 ELSE 97 + ((j \div 2) % 26)]

\* the uploads tried: UploadFile objects (filename, content_type, bytes)
EmptyFile ==
    [filename |-> "empty.txt", content_type |-> "text/plain",
     raw |-> <<>>, pdf |-> NoPdf]

LongFile ==
    [filename |-> "long.txt", content_type |-> "text/plain",
     raw |-> LongRaw(LongFileWords), pdf |-> NoPdf]

\* a text that fills less than one window of the default size, and more
\* than the window's stride
MidFile ==
    [filename |-> "mid.md", content_type |-> "text/markdown",
     raw |-> LongRaw(MidFileWords), pdf |-> NoPdf]

\* bytes that are no PDF and hold a zero byte, declared as a PDF
BinaryPdf ==
    [filename |-> "binary.pdf", content_type |-> "application/pdf",
     raw |-> <<37, 80, 68, 70, 0, 1>>, pdf |-> NoPdf]

\* bytes that are no PDF, declared as one and sent without a filename
BrokenPdf ==
    [filename |-> Null, content_type |-> "application/pdf",
     raw |-> <<37, 80, 68, 70, 255, 32, 120>>, pdf |-> NoPdf]

\* a PDF of three pages, the second without a text layer
ScannedPdf ==
    [filename |-> "scan.pdf", content_type |-> "application/pdf",
     raw |-> <<37, 80, 68, 70>>,
     pdf |-> [valid |-> TRUE,
              pages |-> << [is_none |-> FALSE, text |-> <<97, 32, 98>>],
                           [is_none |-> TRUE, text |-> <<>>],
                           [is_none |-> FALSE, text |-> <<99>>] >>]]

PngFile ==
    [filename |-> "photo.png", content_type |-> "image/png",
     raw |-> <<137, 80, 78, 71>>, pdf |-> NoPdf]

\* a part sent without a Content-Type
UntypedFile ==
    [filename |-> "blob", content_type |-> Null, raw |-> <<97>>, pdf |-> NoPdf]

Files ==
    {EmptyFile, LongFile, MidFile, BrokenPdf, BinaryPdf, ScannedPdf, PngFile,
     UntypedFile}

\* the upload requests tried, as (user, file): every file by alice; by bob a
\* file of two chunks and a file of a refused type
Uploads == ({"alice"} \X Files) \cup ({"bob"} \X {LongFile, PngFile})

NoDocument == [id |-> 0, user_id |-> Null, filename |-> Null, content_type |-> Null]

\* a SQLModel session: objects added and not yet flushed, rows written in
\* the open transaction, and objects marked for deletion
EmptySession ==
    [new_documents |-> {}, new_chunks |-> {},
     tx_documents |-> {}, tx_chunks |-> {},
     deleted_documents |-> {}, deleted_chunks |-> {}]

\* a connection with no request on it
IdleRequest ==
    [op |-> "idle", pc |-> "idle", user |-> Null, content_type |-> Null,
     document_id |-> 0, doc |-> NoDocument, text_chunks |-> <<>>,
     docs |-> <<>>, response_list |-> <<>>, session |-> EmptySession,
     deleted_before |-> {}]

Free(r) == requests[r].pc = "idle"

\* or(a, b) of Python for a string a that may be None
Or(a, b) == IF a = Null THEN b ELSE a

\* Document(user_id=..., filename=..., content_type=...); id from uuid4()
Document(id, user_id, filename, content_type) ==
    [id |-> id, user_id |-> user_id, filename |-> filename,
     content_type |-> content_type]

\* DocumentChunk(document_id=..., content=..., chunk_index=...); id from
\* uuid4(), embedding left at its default None
DocumentChunk(id, document_id, content, chunk_index) ==
    [id |-> id, document_id |-> document_id, content |-> content,
     chunk_index |-> chunk_index, embedding |-> Null]

\* DocumentResponse(...); uploaded_at is not modelled
DocumentResponse(doc, chunk_count) ==
    [id |-> doc.id, filename |-> doc.filename,
     content_type |-> doc.content_type, chunk_count |-> chunk_count]

\* (variant: the listing query without its where clause)
SelectAllDocuments(rows, user_id) == rows

\* select(Document).where(Document.user_id == user_id)
SelectDocumentsOfUser(rows, user_id) == {d \in rows : d.user_id = user_id}

\* (variant: the lookup by identifier alone, without the owner)
SelectDocumentById(rows, document_id, user_id) ==
    {d \in rows : d.id = document_id}

\* select(Document).where(Document.id == document_id,
\*                        Document.user_id == user_id)
SelectOwnedDocument(rows, document_id, user_id) ==
    {d \in rows : d.id = document_id /\ d.user_id = user_id}

\* (variant: the chunk query without its where clause)
SelectAllChunks(rows, document_id) == rows

\* select(DocumentChunk).where(DocumentChunk.document_id == document_id)
SelectChunksOfDocument(rows, document_id) ==
    {c \in rows : c.document_id = document_id}

\* the orders in which a query without ORDER BY may return a set of rows
Orderings(S) ==
    {s \in [1..Cardinality(S) -> S] :
        \A i, j \in 1..Cardinality(S) : i # j => s[i] # s[j]}

\* a str value PostgreSQL takes for a text column: one without U+0000 (the
\* server refuses the parameter, and the statement raises)
Storable(content) == \A i \in 1..Len(content) : content[i] # 0

\* the pending inserts of the session are all accepted by the database
CanFlush(session) == \A c \in session.new_chunks : Storable(c.content)

\* session.flush() of the pending inserts
Flush(session) ==
    [session EXCEPT
        !.tx_documents = session.tx_documents \cup session.new_documents,
        !.tx_chunks = session.tx_chunks \cup session.new_chunks,
        !.new_documents = {},
        !.new_chunks = {}]

\* (variant: the document insert of the transaction is lost)
CommittedDocumentsWithoutInserts(session) ==
    {d \in documents : \A x \in session.deleted_documents : x.id # d.id}

\* the committed tables after session.commit(): flush, then the inserts and
\* the deletes (by primary key) of the transaction become visible together
CommittedDocuments(session) ==
    LET s == Flush(session)
    IN  {d \in documents \cup s.tx_documents :
            \A x \in s.deleted_documents : x.id # d.id}

\* (variant: the chunk objects still pending at commit are not written)
CommittedChunksWithoutPending(session) ==
    {c \in document_chunks \cup session.tx_chunks :
        \A x \in session.deleted_chunks : x.id # c.id}

CommittedChunks(session) ==
    LET s == Flush(session)
    IN  {c \in document_chunks \cup s.tx_chunks :
            \A x \in s.deleted_chunks : x.id # c.id}

\* get_session leaves `async with`: the session is closed, what it had not
\* committed is rolled back, and the connection is free again
CloseSession(req) == IdleRequest

\* the latest response sent, as the client sees it (with the request it
\* answers)
Response(req, status, body) ==
    [op |-> req.op, user |-> req.user, content_type |-> req.content_type,
     document_id |-> req.document_id, status |-> status, body |-> body,
     deleted_before |-> req.deleted_before]

\* the handler of the request on connection r returns or raises: the
\* response goes out and the session is closed; h is the history so far
Respond(r, req, status, body, h) ==
    /\ requests' = [requests EXCEPT ![r] = CloseSession(req)]
    /\ history' = [h EXCEPT !.last = Response(req, status, body)]

\* a request arrives on connection r and gets its own session
Accept(r, op, user, content_type, document_id) ==
    [IdleRequest EXCEPT !.op = op, !.user = user, !.content_type = content_type,
                        !.document_id = document_id]

CanAccept(r) ==
    /\ Free(r)
    /\ \A q \in Connections : q < r => ~Free(q)
    /\ history.served < MaxRequests

Served == [history EXCEPT !.served = history.served + 1]

\* the document identifiers a client can have learnt, and one that never existed
KnownDocumentIds ==
    {d.id : d \in documents} \cup {x[1] : x \in history.deleted} \cup {0}

(* upload_document *)

\* the text chunks of an accepted file
TextChunksOf(file) ==
    ChunkText(ExtractText(file, Or(file.content_type, "text/plain")),
              DefaultChunkSize, DefaultOverlap)

\* text_chunks for each of the files tried
TextChunks == [file \in Files |-> TextChunksOf(file)]

\* (variant: the chunks are numbered from 1)
NewChunksFromOne(doc, text_chunks, first_uuid) ==
    {DocumentChunk(first_uuid + k, doc.id, text_chunks[k], k) :
        k \in 1..Len(text_chunks)}

\* the DocumentChunk objects the loop over enumerate(text_chunks) adds; the
\* k-th element (k = 1, 2, ...) has idx = k - 1
NewChunks(doc, text_chunks, first_uuid) ==
    {DocumentChunk(first_uuid + k, doc.id, text_chunks[k], k - 1) :
        k \in 1..Len(text_chunks)}

\* the Document and the DocumentChunk objects an upload of `file` by `user`
\* creates when uuid4() has been called `used` times before
NewDocument(user, file, used) ==
    Document(used + 1, user, Or(file.filename, "unknown"),
             Or(file.content_type, "application/octet-stream"))

\* what a completed upload adds to a store
AfterUpload(store, user, file) ==
    LET doc == NewDocument(user, file, store.uuid_counter)
        text_chunks == TextChunks[file]
    IN  [documents |-> store.documents \cup {doc},
         document_chunks |-> store.document_chunks
              \cup NewChunks(doc, text_chunks, store.uuid_counter + 1),
         uuid_counter |-> store.uuid_counter + 1 + Len(text_chunks),
         created |-> store.created \cup {<<doc.id, Len(text_chunks)>>}]

EmptyStore ==
    [documents |-> {}, document_chunks |-> {}, uuid_counter |-> 0,
     created |-> {}]

\* the store as three completed uploads left it
SeededStore ==
    AfterUpload(AfterUpload(AfterUpload(EmptyStore, "alice", LongFile),
                            "alice", ScannedPdf),
                "bob", BrokenPdf)

\* history: the number of requests received; per Document object created,
\* its id and the number of its chunks; the (id, chunk_count) pairs that
\* uploads returned; the ids of the uploads that failed before their
\* commit; the ids of the uploads whose commit the database refused; the
\* (id, user) pairs of the deletes answered 204; the latest response
StoreInit ==
    /\ chunker = ChunkerIdle
    /\ \E store \in {EmptyStore, SeededStore} :
          /\ documents = store.documents
          /\ document_chunks = store.document_chunks
          /\ uuid_counter = store.uuid_counter
          /\ history = [served |-> 0,
                        created |-> store.created,
                        uploaded |-> store.created,
                        aborted |-> {},
                        rejected |-> {},
                        deleted |-> {},
                        last |-> Response(IdleRequest, 0, <<>>)]
    /\ requests = [r \in Connections |-> IdleRequest]

\* everything up to `await session.commit()`: the media-type check (415),
\* read, extract, chunk, session.add(doc), flush, session.add of each chunk
UploadBegin(r) ==
    \E upload \in Uploads :
        LET user == upload[1]
            file == upload[2]
            req == Accept(r, "upload", user, file.content_type, 0)
            text_chunks == TextChunks[file]
            doc == NewDocument(user, file, uuid_counter)
            flushed == Flush([req.session EXCEPT !.new_documents = {doc}])
        IN  /\ CanAccept(r)
            /\ IF file.content_type \notin AcceptedContentTypes
               THEN /\ Respond(r, req, 415, <<>>, Served)
                    /\ UNCHANGED uuid_counter
               ELSE /\ history' = [Served EXCEPT !.created =
                                       @ \cup {<<doc.id, Len(text_chunks)>>}]
                    /\ requests' = [requests EXCEPT ![r] =
                          [req EXCEPT
                             !.pc = "upload_commit",
                             !.text_chunks = text_chunks,
                             !.doc = doc,
                             !.session =
                                [flushed EXCEPT !.new_chunks =
                                    NewChunks(doc, text_chunks, uuid_counter + 1)]]]
                    /\ uuid_counter' = uuid_counter + 1 + Len(text_chunks)
            /\ UNCHANGED <<chunker, documents, document_chunks>>

\* session.commit(): the chunk inserts are flushed and the transaction is
\* committed; when the database refuses an insert the statement raises, the
\* handler is left (500) and the transaction is rolled back
UploadCommit(r) ==
    LET req == requests[r]
    IN  /\ req.pc = "upload_commit"
        /\ IF CanFlush(req.session)
           THEN /\ documents' = CommittedDocuments(req.session)
                /\ document_chunks' = CommittedChunks(req.session)
                /\ requests' = [requests EXCEPT ![r] =
                      [req EXCEPT !.pc = "upload_refresh",
                                  !.session = EmptySession]]
                /\ UNCHANGED history
           ELSE /\ Respond(r, req, 500, <<>>,
                           [history EXCEPT !.rejected = @ \cup {req.doc.id}])
                /\ UNCHANGED <<documents, document_chunks>>
        /\ UNCHANGED <<chunker, uuid_counter>>

\* session.refresh(doc), which raises when the row is gone, and the return
UploadRefresh(r) ==
    LET req == requests[r]
        row == {d \in documents : d.id = req.doc.id}
        chunk_count == Len(req.text_chunks)
    IN  /\ req.pc = "upload_refresh"
        /\ IF row = {}
           THEN Respond(r, req, 500, <<>>, history)
           ELSE Respond(r, req, 201,
                        <<DocumentResponse(CHOOSE d \in row : TRUE, chunk_count)>>,
                        [history EXCEPT !.uploaded =
                            @ \cup {<<req.doc.id, chunk_count>>}])
        /\ UNCHANGED <<chunker, documents, document_chunks, uuid_counter>>

(* list_documents *)

\* select(Document).where(user_id == current_user.id); docs = result.all();
\* with no document the loop is skipped and [] is returned
ListQueryDocs(r) ==
    \E user \in Users :
        LET req == Accept(r, "list", user, Null, 0)
        IN  /\ CanAccept(r)
            /\ \E docs \in Orderings(SelectDocumentsOfUser(documents, user)) :
                  IF docs = <<>>
                  THEN Respond(r, [req EXCEPT !.deleted_before = history.deleted],
                               200, <<>>, Served)
                  ELSE /\ history' = Served
                       /\ requests' = [requests EXCEPT ![r] =
                             [req EXCEPT !.pc = "list_loop", !.docs = docs,
                                         !.deleted_before = history.deleted]]
            /\ UNCHANGED <<chunker, documents, document_chunks, uuid_counter>>

\* one pass of `for doc in docs`: the chunk query and response.append(...);
\* after the last one, return response
ListCountChunks(r) ==
    LET req == requests[r]
        doc == Head(req.docs)
        chunks == SelectChunksOfDocument(document_chunks, doc.id)
        response == Append(req.response_list,
                           DocumentResponse(doc, Cardinality(chunks)))
    IN  /\ req.pc = "list_loop"
        /\ IF Tail(req.docs) = <<>>
           THEN Respond(r, req, 200, response, history)
           ELSE /\ requests' = [requests EXCEPT ![r] =
                      [req EXCEPT !.docs = Tail(req.docs),
                                  !.response_list = response]]
                /\ UNCHANGED history
        /\ UNCHANGED <<chunker, documents, document_chunks, uuid_counter>>

(* delete_document *)

\* what the lookup of delete_document decides: 404, or go on to the 204
DeleteOutcome(rows, document_id, user) ==
    IF SelectOwnedDocument(rows, document_id, user) = {} THEN 404 ELSE 204

\* the ownership-scoped lookup; 404 when it finds nothing
DeleteQueryDoc(r) ==
    \E user \in Users, document_id \in KnownDocumentIds :
        LET req == Accept(r, "delete", user, Null, document_id)
            found == SelectOwnedDocument(documents, document_id, user)
        IN  /\ CanAccept(r)
            /\ IF DeleteOutcome(documents, document_id, user) = 404
               THEN Respond(r, req, 404, <<>>, Served)
               ELSE /\ history' = Served
                    /\ requests' = [requests EXCEPT ![r] =
                          [req EXCEPT !.pc = "delete_chunks",
                                      !.doc = CHOOSE d \in found : TRUE]]
            /\ UNCHANGED <<chunker, documents, document_chunks, uuid_counter>>

\* (variant: only the document is marked, its chunks are left)
MarkDocumentDeleted(session, chunks, doc) ==
    [session EXCEPT !.deleted_documents = {doc}]

\* for chunk in chunk_result.all(): session.delete(chunk); session.delete(doc)
MarkDeleted(session, chunks, doc) ==
    [session EXCEPT !.deleted_chunks = chunks, !.deleted_documents = {doc}]

\* the chunk query and the session.delete calls
DeleteQueryChunks(r) ==
    LET req == requests[r]
        chunks == SelectChunksOfDocument(document_chunks, req.document_id)
    IN  /\ req.pc = "delete_chunks"
        /\ requests' = [requests EXCEPT ![r] =
              [req EXCEPT !.pc = "delete_commit",
                          !.session = MarkDeleted(req.session, chunks, req.doc)]]
        /\ UNCHANGED <<chunker, documents, document_chunks, uuid_counter, history>>

\* session.commit(), and the empty 204 response
DeleteCommit(r) ==
    LET req == requests[r]
    IN  /\ req.pc = "delete_commit"
        /\ documents' = CommittedDocuments(req.session)
        /\ document_chunks' = CommittedChunks(req.session)
        /\ Respond(r, [req EXCEPT !.deleted_before = history.deleted],
                   204, <<>>,
                   [history EXCEPT !.deleted =
                       @ \cup {<<req.document_id, req.user>>}])
        /\ UNCHANGED <<chunker, uuid_counter>>

(* failures *)

\* an awaited storage operation fails, or the request is cancelled while it
\* waits: the handler is left by an exception and get_session closes the
\* session
RequestFails(r) ==
    LET req == requests[r]
    IN  /\ ~Free(r)
        /\ Respond(r, req, 500, <<>>,
                   IF req.pc = "upload_commit"
                   THEN [history EXCEPT !.aborted = @ \cup {req.doc.id}]
                   ELSE history)
        /\ UNCHANGED <<chunker, documents, document_chunks, uuid_counter>>

Next ==
    \E r \in Connections :
        \/ UploadBegin(r)
        \/ UploadCommit(r)
        \/ UploadRefresh(r)
        \/ ListQueryDocs(r)
        \/ ListCountChunks(r)
        \/ DeleteQueryDoc(r)
        \/ DeleteQueryChunks(r)
        \/ DeleteCommit(r)
        \/ RequestFails(r)

Spec == StoreInit /\ [][Next]_vars

----------------------------------------------------------------------------
(* Properties of _chunk_text, checked under SpecChunker *)

Returned == chunker.pc = "return"

ValidParams == chunker.chunk_size > chunker.overlap /\ chunker.overlap > 0

\* ceil(a / b) for b > 0
CeilDiv(a, b) == (a + b - 1) \div b

\* the number of chunks the specification announces for L words
ExpectedChunkCount(L, chunk_size, overlap) ==
    IF L = 0 THEN 0
    ELSE IF L <= chunk_size THEN 1
    ELSE CeilDiv(L - overlap, chunk_size - overlap)

\* C1: with chunk_size > overlap > 0, _chunk_text returns
\* ceil((L - overlap) / (chunk_size - overlap)) chunks for L > chunk_size
\* words, 1 chunk for 0 < L <= chunk_size and none for L = 0
C1_ChunkCountFormula ==
    (Returned /\ ValidParams) =>
        Len(chunker.chunks) =
            ExpectedChunkCount(Len(Split(chunker.text)),
                               chunker.chunk_size, chunker.overlap)

\* C2: with chunk_size > overlap > 0, a non-empty text of fewer than
\* chunk_size words comes back as exactly one chunk that holds all the words
C2_ShortTextOneChunk ==
    (/\ Returned
     /\ ValidParams
     /\ Split(chunker.text) # <<>>
     /\ Len(Split(chunker.text)) < chunker.chunk_size)
        => /\ Len(chunker.chunks) = 1
           /\ Split(chunker.chunks[1]) = Split(chunker.text)

\* the words of chunks[k..] with the first `overlap` words of each dropped
RECURSIVE DropOverlaps(_, _, _)
DropOverlaps(chunks, overlap, k) ==
    IF k > Len(chunks) THEN <<>>
    ELSE LET ws == Split(chunks[k])
         IN  SubSeq(ws, overlap + 1, Len(ws))
                 \o DropOverlaps(chunks, overlap, k + 1)

\* the first chunk in full, then every later chunk without its overlap
Recombine(chunks, overlap) ==
    IF chunks = <<>> THEN <<>>
    ELSE Split(chunks[1]) \o DropOverlaps(chunks, overlap, 2)

\* C3: with chunk_size > overlap > 0, the first chunk followed by every
\* later chunk minus its first `overlap` words is the word sequence of the
\* text: nothing lost, duplicated or reordered
C3_RecombineRestoresWords ==
    (Returned /\ ValidParams) =>
        Recombine(chunker.chunks, chunker.overlap) = Split(chunker.text)

\* a multi-chunk result whose last chunk is shorter than the overlap
C3_Witness ==
    /\ Returned
    /\ ValidParams
    /\ Len(chunker.chunks) >= 3
    /\ Len(Split(chunker.chunks[Len(chunker.chunks)])) < chunker.overlap
    /\ chunker.overlap >= 2

\* C4: with overlap >= chunk_size and a non-empty text, _chunk_text rejects
\* the parameters or moves the window forward by at least one word in every
\* pass of its loop
C4_StrideGuarded ==
    [][(/\ chunker.pc = "loop"
        /\ chunker.overlap >= chunker.chunk_size
        /\ chunker' # chunker)
          => \/ chunker'.pc = "rejected"
             \/ chunker'.pc = "return"
             \/ chunker'.start > chunker.start]_vars

----------------------------------------------------------------------------
(* Properties of the handlers, checked under Spec *)

\* a request is received in this step
Arrives == history'.served = history.served + 1

\* the request received in this step: on its connection, or in the history
\* when it was answered at once
Arrival ==
    IF \E r \in Connections : requests[r].pc = "idle" /\ requests'[r].pc # "idle"
    THEN requests'[CHOOSE r \in Connections :
                      requests[r].pc = "idle" /\ requests'[r].pc # "idle"]
    ELSE history'.last

ChunkRowsOf(id) == {c \in document_chunks : c.document_id = id}

Stored(id) == \E d \in documents : d.id = id

\* C5: an upload whose media type is none of application/pdf, text/markdown,
\* text/plain (an absent one included) is answered 415 at once: nothing is
\* extracted, no object is created, and the stored rows stay as they are
C5_UnsupportedTypeRejected ==
    [][(/\ Arrives
        /\ Arrival.op = "upload"
        /\ Arrival.content_type
              \notin {"application/pdf", "text/markdown", "text/plain"})
          => /\ requests' = requests
             /\ history'.last.op = "upload"
             /\ history'.last.status = 415
             /\ history'.created = history.created
             /\ UNCHANGED <<documents, document_chunks, uuid_counter>>]_vars

\* an upload without a media type was answered 415 while rows are stored
C5_Witness ==
    /\ history.last.op = "upload"
    /\ history.last.status = 415
    /\ history.last.content_type = Null
    /\ document_chunks # {}

\* C6: a delete of document D by a user who does not own D is answered 404
\* and leaves D and all of D's chunks in place
C6_ForeignDeleteNotFound ==
    [][(/\ Arrives
        /\ Arrival.op = "delete"
        /\ \E d \in documents :
              d.id = Arrival.document_id /\ d.user_id # Arrival.user)
          => /\ requests' = requests
             /\ history'.last.op = "delete"
             /\ history'.last.status = 404
             /\ UNCHANGED <<documents, document_chunks>>]_vars

\* a delete of another user's stored document, which has chunks, was
\* answered 404
C6_Witness ==
    /\ history.last.op = "delete"
    /\ history.last.status = 404
    /\ \E d \in documents :
          /\ d.id = history.last.document_id
          /\ d.user_id # history.last.user
          /\ ChunkRowsOf(d.id) # {}

\* once a delete was answered 204, the document and its chunks are not
\* stored, and no listing begun afterwards returns it
DeletedStaysGone ==
    /\ \A x \in history.deleted : ~Stored(x[1]) /\ ChunkRowsOf(x[1]) = {}
    /\ (history.last.op = "list" /\ history.last.status = 200)
          => \A k \in 1..Len(history.last.body) :
                \A x \in history.last.deleted_before :
                    history.last.body[k].id # x[1]

\* a step removes a document exactly when it removes the document's chunks
RemovedTogether ==
    /\ \A d \in documents :
          d \notin documents'
             => \A c \in document_chunks' : c.document_id # d.id
    /\ \A c \in document_chunks :
          c \notin document_chunks'
             => \A d \in documents' : d.id # c.document_id

\* C7: after the owner's delete of D was answered 204, D and its chunks are
\* absent: later listings omit D and a chunk lookup by D's id finds nothing;
\* the document and its chunks disappear in the same commit
C7_OwnerDeleteRemovesAll == []DeletedStaysGone /\ [][RemovedTogether]_vars

\* the owner of a deleted document that had two chunks listed afterwards
C7_Witness ==
    /\ history.last.op = "list"
    /\ history.last.status = 200
    /\ \E x \in history.last.deleted_before :
          /\ x[2] = history.last.user
          /\ \E y \in history.created : y[1] = x[1] /\ y[2] >= 2

\* what a listing for `user` returns when nothing runs beside it
ListingOf(doc_rows, chunk_rows, user) ==
    {DocumentResponse(d, Cardinality(SelectChunksOfDocument(chunk_rows, d.id))) :
        d \in SelectDocumentsOfUser(doc_rows, user)}

\* C8: for a caller, a store that holds another user's document D and the
\* same store without D are the same: the delete of D's identifier is
\* answered alike, and so is the listing
C8_ForeignIndistinguishable ==
    \A user \in Users :
        \A d \in documents :
            d.user_id # user =>
                LET docs_without == documents \ {d}
                    chunks_without ==
                        {c \in document_chunks : c.document_id # d.id}
                IN  /\ DeleteOutcome(documents, d.id, user)
                          = DeleteOutcome(docs_without, d.id, user)
                    /\ ListingOf(documents, document_chunks, user)
                          = ListingOf(docs_without, chunks_without, user)

\* a delete of an identifier that names no document was answered 404 while
\* another user's documents are stored
C8_Witness ==
    /\ history.last.op = "delete"
    /\ history.last.status = 404
    /\ ~Stored(history.last.document_id)
    /\ \E d \in documents : d.user_id # history.last.user
    /\ \E d \in documents : d.user_id = history.last.user

\* C9: of every Document object an upload created, the committed store holds
\* either the row and all its chunk rows or neither; after an upload that
\* failed or was cancelled between flush and commit it holds neither
C9_UploadAllOrNothing ==
    \A x \in history.created :
        /\ Stored(x[1]) => Cardinality(ChunkRowsOf(x[1])) = x[2]
        /\ ~Stored(x[1]) => ChunkRowsOf(x[1]) = {}
        /\ x[1] \in history.aborted => ~Stored(x[1])

\* an upload of two chunks failed after its flush, and another upload is
\* flushed and not yet committed
C9_Witness ==
    /\ \E x \in history.created : x[1] \in history.aborted /\ x[2] >= 2
    /\ \E r \in Connections :
          /\ requests[r].pc = "upload_commit"
          /\ requests[r].session.tx_documents # {}

\* C10: the chunk_index values stored for a document are 0 .. n-1, each
\* once, n being the chunk_count its upload returned
C10_ChunkIndicesDense ==
    \A x \in history.uploaded :
        Stored(x[1]) =>
            /\ {c.chunk_index : c \in ChunkRowsOf(x[1])} = 0..(x[2] - 1)
            /\ Cardinality(ChunkRowsOf(x[1])) = x[2]

\* an upload has just returned chunk_count 2 and its document is stored
C10_Witness ==
    /\ history.last.op = "upload"
    /\ history.last.status = 201
    /\ history.last.body[1].chunk_count >= 2
    /\ Stored(history.last.body[1].id)

\* C11: in every committed state every stored DocumentChunk references a
\* Document that is stored in the same state, whatever uploads and deletes
\* of whatever users ran and however they interleaved
C11_NoOrphanChunk ==
    \A c \in document_chunks : \E d \in documents : d.id = c.document_id

\* a document of two chunks was deleted, and an upload has just stored a
\* document with chunks
C11_Witness ==
    /\ \E x \in history.deleted :
          \E y \in history.created : y[1] = x[1] /\ y[2] >= 2
    /\ history.last.op = "upload"
    /\ history.last.status = 201
    /\ ChunkRowsOf(history.last.body[1].id) # {}

\* C12: no upload with an accepted media type is refused for what its bytes
\* are, and an upload answered 201 has created the one Document it returns,
\* owned by the caller, with chunk_count the number of chunks made of the
\* file, 0 for the zero-byte file
C12_ContentNeverFailsUpload ==
    /\ history.rejected = {}
    /\ (history.last.op = "upload" /\ history.last.status = 201) =>
          LET resp == history.last.body[1]
          IN  /\ <<resp.id, resp.chunk_count>> \in history.created
              /\ \A d \in documents :
                    d.id = resp.id => d.user_id = history.last.user
              /\ resp.filename = EmptyFile.filename => resp.chunk_count = 0

\* C13: every entry of a listing is a document of the caller, with the
\* number of chunks the document has in the committed states that hold it
\* (history.created records that number: by C9 it is the same in all of them)
C13_ListingCountsExact ==
    (history.last.op = "list" /\ history.last.status = 200) =>
        \A k \in 1..Len(history.last.body) :
            LET entry == history.last.body[k]
            IN  /\ <<entry.id, entry.chunk_count>> \in history.created
                /\ \A d \in documents :
                      d.id = entry.id => d.user_id = history.last.user

\* the file a stored document was uploaded from (the filenames of the files
\* tried differ)
FileOf(doc) ==
    CHOOSE file \in Files : Or(file.filename, "unknown") = doc.filename

\* the words of the text extracted from each file
Words ==
    [file \in Files |->
        Split(ExtractText(file, Or(file.content_type, "text/plain")))]

Stride == DefaultChunkSize - DefaultOverlap

\* the end of the k-th window over L words
WindowEnd(k, L) == Min(k * Stride + DefaultChunkSize, L)

\* for each file, the k-th window of its words joined by single spaces, for
\* every k that starts inside the text
Windows ==
    [file \in Files |->
        [k \in {j \in 0..Len(Words[file]) : j * Stride < Len(Words[file])} |->
            Join(<<32>>, PySlice(Words[file], k * Stride,
                                 WindowEnd(k, Len(Words[file]))))]]

\* C14: the chunk stored with chunk_index k holds the words at positions
\* [k * (512 - 64), min(k * (512 - 64) + 512, L)) of the extracted text,
\* joined by single spaces, and only the chunk with the highest index of its
\* document has fewer than 512 words
C14_ChunkHoldsWindow ==
    \A d \in documents :
        \A c \in ChunkRowsOf(d.id) :
            LET file == FileOf(d)
                k == c.chunk_index
            IN  /\ k \in DOMAIN Windows[file]
                /\ c.content = Windows[file][k]
                /\ WindowEnd(k, Len(Words[file])) - k * Stride < DefaultChunkSize
                      => \A other \in ChunkRowsOf(d.id) : other.chunk_index <= k

\* the delete on connection r commits in this step
DeleteCommits(r) ==
    /\ requests[r].pc = "delete_commit"
    /\ requests'[r].pc = "idle"
    /\ history'.last.status = 204

\* a commit of a delete removes the rows of its document and no other row
OnlyTargetRemoved ==
    \A r \in Connections :
        DeleteCommits(r) =>
            /\ documents' = {d \in documents : d.id # requests[r].document_id}
            /\ document_chunks' =
                  {c \in document_chunks :
                      c.document_id # requests[r].document_id}

\* the latest response is the 204 of a delete whose document another delete
\* by the same owner had removed while this one was under way
SecondDeleteAnswered ==
    /\ history.last.op = "delete"
    /\ history.last.status = 204
    /\ <<history.last.document_id, history.last.user>>
          \in history.last.deleted_before

\* C15: when two deletes of one document by its owner overlap, each commit
\* removes rows of that document only, and after both neither the document
\* nor a chunk of it is stored
C15_ConcurrentDeletesConverge ==
    /\ [][OnlyTargetRemoved]_vars
    /\ [](SecondDeleteAnswered =>
            /\ ~Stored(history.last.document_id)
            /\ ChunkRowsOf(history.last.document_id) = {})

\* both deletes of a document of two chunks were answered 204 and other
\* documents and chunks are stored
C15_Witness ==
    /\ SecondDeleteAnswered
    /\ \E y \in history.created :
          y[1] = history.last.document_id /\ y[2] >= 2
    /\ documents # {}
    /\ document_chunks # {}

====
